---- MODULE Spec2Model ----
(***************************************************************************)
(* Model of libqutrub's verb-form layer: the classifier                    *)
(* (VerbFormDetector.detect_form_pattern), the generator                   *)
(* (generate_form_variants), the ASCII comparison table                    *)
(* (create_ascii_table), and the facade of conjugator.py (conjugate,       *)
(* create_verb_forms_table).                                               *)
(*                                                                         *)
(* A string is a sequence of Unicode code points (naturals).  Python's     *)
(* None is the value None below; a confidence is kept in percent.          *)
(***************************************************************************)
EXTENDS Integers, Sequences, FiniteSets, TLC

VARIABLES call, ret, engine

vars == <<call, ret, engine>>

\* ------------------------------------------------------------ code points
\* pyarabic.araby names (verb_form_detector.py, import at lines 34-37)
ALEF_MADDA == 1570
ALEF_HAMZA_ABOVE == 1571
ALEF_HAMZA_BELOW == 1573
ALEF == 1575
ALEF_MAKSURA == 1609
YEH == 1610
FATHA == 1614
DAMMA == 1615
KASRA == 1616
SHADDA == 1617
SUKUN == 1618
ALEF_WASLA == 1649
\* letters written as literals in the source
TEH == 1578
SEEN == 1587
FEH == 1601
NOON == 1606
\* the letters of the skeleton f-`-l in form_definitions
AIN == 1593
LAM == 1604
\* the root letters of the test fixtures, k-t-b
KAF == 1603
BEH == 1576

\* Python's None (a form number that is absent)
None == -1

\* the five marks is_vocalized looks for; also what the araby stripping
\* functions remove from the strings of this model
Marks == {FATHA, DAMMA, KASRA, SHADDA, SUKUN}

\* ------------------------------------------------------------ str helpers
\* s[a:b] of Python for a >= 0 and any integer b (negative b counts from the end)
Slice(s, a, b) ==
  LET n  == Len(s)
      lo == IF a > n THEN n ELSE a
      hi == IF b < 0 THEN (IF n + b < 0 THEN 0 ELSE n + b)
                     ELSE (IF b > n THEN n ELSE b)
  IN  IF hi <= lo THEN <<>> ELSE SubSeq(s, lo + 1, hi)

\* s.startswith(p)
StartsWith(s, p) ==
  /\ Len(p) <= Len(s)
  /\ SubSeq(s, 1, Len(p)) = p

\* s.endswith(p)
EndsWith(s, p) ==
  /\ Len(p) <= Len(s)
  /\ SubSeq(s, Len(s) - Len(p) + 1, Len(s)) = p

\* sub in s  (substring test; a one-character sub is <<c>>)
Contains(sub, s) ==
  \E i \in 0..(Len(s) - Len(sub)) : SubSeq(s, i + 1, i + Len(sub)) = sub

\* c in s  (character membership)
HasChar(c, s) == \E i \in 1..Len(s) : s[i] = c

\* the string with the characters of the set drop removed
RECURSIVE Remove(_, _)
Remove(s, drop) ==
  IF s = <<>> THEN <<>>
  ELSE IF Head(s) \in drop THEN Remove(Tail(s), drop)
       ELSE <<Head(s)>> \o Remove(Tail(s), drop)

\* araby.strip_vocalization: the letters of s, every mark removed
StripVocalization(s) == Remove(s, Marks)

\* str.strip(): leading and trailing white space removed
Whitespace == {9, 10, 11, 12, 13, 32}

RECURSIVE LStrip(_)
LStrip(s) ==
  IF s # <<>> /\ Head(s) \in Whitespace THEN LStrip(Tail(s)) ELSE s

RECURSIVE RStrip(_)
RStrip(s) ==
  IF s # <<>> /\ s[Len(s)] \in Whitespace THEN RStrip(SubSeq(s, 1, Len(s) - 1)) ELSE s

PyStrip(s) == RStrip(LStrip(s))

\* ------------------------------------------------------------ classifier
\* VerbFormDetector.is_vocalized
IsVocalized(verb) == \E i \in 1..Len(verb) : verb[i] \in Marks

\* normalize_verb without the alef substitution: the hamza and madda carriers
\* are kept, only the final yeh is normalized
NormalizeVerbKeepHamza(verb) ==
  IF ~IsVocalized(verb) THEN verb
  ELSE [i \in 1..Len(verb) |->
          IF i = Len(verb) /\ verb[i] \in {YEH, ALEF_MAKSURA} THEN YEH ELSE verb[i]]

\* VerbFormDetector.normalize_verb
NormalizeVerb(verb) ==
  IF ~IsVocalized(verb) THEN verb
  ELSE LET alefs == [i \in 1..Len(verb) |->
                       IF verb[i] \in {ALEF, ALEF_HAMZA_ABOVE, ALEF_HAMZA_BELOW, ALEF_MADDA}
                       THEN ALEF ELSE verb[i]]
       IN  [i \in 1..Len(alefs) |->
              IF i = Len(alefs) /\ alefs[i] \in {YEH, ALEF_MAKSURA} THEN YEH ELSE alefs[i]]

\* the confidence of a match, in percent (0.9)
MATCH_CONFIDENCE == 90

\* the rules with Form IX moved before Forms VII and VIII
PatternOrderIXFirst == <<2, 3, 4, 5, 6, 9, 7, 8, 10, 1>>

\* the order of the rules in the patterns list
PatternOrder == <<2, 3, 4, 5, 6, 7, 8, 9, 10, 1>>

\* the 'condition' lambda of the rule for form, on v = normalized; length is the
\* local of detect_form_pattern that only the Form I lambda reads
Condition(form, v, length) ==
  CASE form = 2 ->
         /\ HasChar(SHADDA, Slice(v, 1, -1))
         /\ ~StartsWith(v, <<ALEF, FATHA>>)
         /\ ~StartsWith(v, <<TEH>>)
         /\ ~StartsWith(v, <<ALEF>>)
    [] form = 3 ->
         /\ Len(StripVocalization(v)) >= 4
         /\ \/ (HasChar(ALEF, Slice(v, 1, 3)) /\ HasChar(FATHA, Slice(v, 1, 3)))
            \/ Contains(<<FATHA, ALEF>>, Slice(v, 1, 3))
            \/ Contains(<<ALEF, FATHA>>, Slice(v, 1, 3))
    [] form = 4 ->
         /\ StartsWith(v, <<ALEF, FATHA>>)
         /\ Len(StripVocalization(v)) >= 4
    [] form = 5 ->
         /\ StartsWith(v, <<TEH, FATHA>>)
         /\ HasChar(SHADDA, Slice(v, 2, -1))
         /\ Len(StripVocalization(v)) >= 5
    [] form = 6 ->
         /\ StartsWith(v, <<TEH, FATHA>>)
         /\ \/ HasChar(ALEF, Slice(v, 2, 4))
            \/ Contains(<<FATHA, ALEF>>, Slice(v, 2, 4))
         /\ Len(StripVocalization(v)) >= 5
    [] form = 7 ->
         /\ \/ StartsWith(v, <<ALEF, KASRA, NOON>>)
            \/ StartsWith(v, <<ALEF_WASLA, KASRA, NOON>>)
         /\ Len(StripVocalization(v)) >= 5
    [] form = 8 ->
         /\ \/ StartsWith(v, <<ALEF, KASRA, FEH>>)
            \/ StartsWith(v, <<ALEF_WASLA, KASRA, FEH>>)
         /\ Len(StripVocalization(v)) >= 5
    [] form = 9 ->
         /\ \/ StartsWith(v, <<ALEF, KASRA>>)
            \/ StartsWith(v, <<ALEF_WASLA, KASRA>>)
         /\ EndsWith(v, <<SHADDA>>)
         /\ Len(StripVocalization(v)) >= 5
    [] form = 10 ->
         /\ \/ StartsWith(v, <<ALEF, KASRA, SEEN>>)
            \/ StartsWith(v, <<ALEF_WASLA, KASRA, SEEN>>)
         /\ HasChar(TEH, Slice(v, 2, 5))
         /\ Len(StripVocalization(v)) >= 6
    [] form = 1 ->
         /\ length = 3
         /\ HasChar(FATHA, v)
         /\ ~HasChar(SHADDA, v)
         /\ ~StartsWith(v, <<ALEF, FATHA>>)
         /\ ~StartsWith(v, <<TEH>>)
    [] OTHER -> FALSE

\* the loop over patterns, from rule i on: the first rule whose condition holds
\* returns; evaluated counts the conditions evaluated
RECURSIVE CheckPatterns(_, _, _)
CheckPatterns(v, length, i) ==
  IF i > Len(PatternOrder)
  THEN [form |-> None, confidence |-> 0, evaluated |-> i - 1]
  ELSE IF Condition(PatternOrder[i], v, length)
       THEN [form |-> PatternOrder[i], confidence |-> MATCH_CONFIDENCE, evaluated |-> i]
       ELSE CheckPatterns(v, length, i + 1)

\* detect_form_pattern without the is_vocalized guard: the rules run on
\* unvocalized input too
DetectFormPatternUnguarded(verb) ==
  IF verb = <<>> THEN [form |-> None, confidence |-> 0, evaluated |-> 0]
  ELSE LET normalized == NormalizeVerb(verb)
           length     == Len(StripVocalization(normalized))
       IN  CheckPatterns(normalized, length, 1)

\* VerbFormDetector.detect_form_pattern, with the number of rule conditions
\* it evaluated
DetectFormPattern(verb) ==
  IF verb = <<>> THEN [form |-> None, confidence |-> 0, evaluated |-> 0]
  ELSE IF ~IsVocalized(verb) THEN [form |-> None, confidence |-> 0, evaluated |-> 0]
  ELSE LET normalized == NormalizeVerb(verb)
           length     == Len(StripVocalization(normalized))
       IN  CheckPatterns(normalized, length, 1)

\* ------------------------------------------------------------ generator
\* the templates of generate_form_variants for the root letters f1 f2 f3
Templates(f1, f2, f3, form_num) ==
  CASE form_num = 1 ->
         << <<f1, FATHA, f2, FATHA, f3>>,
            <<f1, FATHA, f2, DAMMA, f3>>,
            <<f1, FATHA, f2, KASRA, f3>> >>
    [] form_num = 2 ->
         << <<f1, FATHA, f2, SHADDA, FATHA, f3>>,
            <<f1, FATHA, f2, SHADDA, ALEF, f3>> >>
    [] form_num = 3 ->
         << <<f1, FATHA, ALEF, f2, FATHA, f3>> >>
    [] form_num = 4 ->
         << <<ALEF, FATHA, f1, SUKUN, f2, FATHA, f3, ALEF>>,
            <<ALEF, FATHA, f1, SUKUN, f2, FATHA, f3>> >>
    [] form_num = 5 ->
         << <<TEH, FATHA, f1, FATHA, f2, SHADDA, FATHA, f3, ALEF>>,
            <<TEH, FATHA, f1, FATHA, f2, SHADDA, FATHA, f3>> >>
    [] form_num = 6 ->
         << <<TEH, FATHA, f1, ALEF, f2, FATHA, f3, ALEF>>,
            <<TEH, FATHA, f1, ALEF, f2, FATHA, f3>> >>
    [] form_num = 7 ->
         << <<ALEF_WASLA, KASRA, NOON, SUKUN, f1, FATHA, f2, FATHA, f3, ALEF>>,
            <<ALEF_WASLA, KASRA, NOON, SUKUN, f1, FATHA, f2, FATHA, f3>> >>
    [] form_num = 8 ->
         << <<ALEF_WASLA, KASRA, FEH, SUKUN, f1, FATHA, f2, FATHA, f3, ALEF>>,
            <<ALEF_WASLA, KASRA, FEH, SUKUN, f1, FATHA, f2, FATHA, f3>> >>
    [] form_num = 10 ->
         << <<ALEF_WASLA, KASRA, SEEN, SUKUN, TEH, FATHA, f1, SUKUN, f2, FATHA, f3, ALEF>>,
            <<ALEF_WASLA, KASRA, SEEN, SUKUN, TEH, FATHA, f1, SUKUN, f2, FATHA, f3>> >>
    [] OTHER -> <<>>

\* the final list comprehension: [v for v in variants if v and len(v.strip()) > 0]
RECURSIVE DropBlank(_)
DropBlank(variants) ==
  IF variants = <<>> THEN <<>>
  ELSE LET v == Head(variants)
       IN  IF v # <<>> /\ Len(PyStrip(v)) > 0
           THEN <<v>> \o DropBlank(Tail(variants))
           ELSE DropBlank(Tail(variants))

\* generate_form_variants taking the first three letters of a longer root
\* (len(root) >= 3 where the code has len(root) == 3)
GenerateFormVariantsPrefix(root_verb, form_num) ==
  IF root_verb = <<>> THEN <<>>
  ELSE LET root == StripVocalization(root_verb)
       IN  IF Len(root) < 3 THEN <<>>
           ELSE DropBlank(Templates(root[1], root[2], root[3], form_num))

\* generate_form_variants listing the candidates of a form last to first, so
\* that the shorter spelling comes first
GenerateFormVariantsReversed(root_verb, form_num) ==
  IF root_verb = <<>> THEN <<>>
  ELSE LET root == StripVocalization(root_verb)
       IN  IF Len(root) = 3
           THEN LET variants == DropBlank(Templates(root[1], root[2], root[3], form_num))
                IN  [i \in 1..Len(variants) |-> variants[Len(variants) + 1 - i]]
           ELSE <<>>

\* VerbFormDetector.generate_form_variants
GenerateFormVariants(root_verb, form_num) ==
  IF root_verb = <<>> THEN <<>>
  ELSE LET root == StripVocalization(root_verb)
       IN  IF Len(root) < 3 THEN <<>>
           ELSE IF Len(root) = 3
                THEN DropBlank(Templates(root[1], root[2], root[3], form_num))
                ELSE DropBlank(<<>>)

\* ------------------------------------------------------------ form registry
\* VERB_FORMS: number -> descriptor; the names are kept as the Latin
\* transliteration of the Arabic name, the example as its code points
VERB_FORMS ==
  [n \in 1..10 |->
     [form_num |-> n,
      arabic_name |->
        CASE n = 1 -> "al-fi'l al-mujarrad" [] n = 2 -> "fa''ala"
          [] n = 3 -> "faa'ala"   [] n = 4 -> "af'ala"
          [] n = 5 -> "tafa''ala" [] n = 6 -> "tafaa'ala"
          [] n = 7 -> "infa'ala"  [] n = 8 -> "ifta'ala"
          [] n = 9 -> "if'alla"   [] OTHER -> "istaf'ala",
      english_meaning |->
        CASE n = 1 -> "Basic/Original"          [] n = 2 -> "Intensive/Causative"
          [] n = 3 -> "Interactive/Reciprocal"  [] n = 4 -> "Causative/Declarative"
          [] n = 5 -> "Reflexive of Form II"    [] n = 6 -> "Reciprocal of Form III"
          [] n = 7 -> "Passive/Reflexive"       [] n = 8 -> "Reflexive/Participatory"
          [] n = 9 -> "Color/Physical Defects"  [] OTHER -> "Request/Seeking"]]

\* get_form_info indexing the dict (self.verb_forms[form_num]): a number that
\* is not a key raises KeyError
GetFormInfoIndexed(form_num) ==
  IF form_num \in DOMAIN VERB_FORMS
  THEN [kind |-> "form_info", info |-> VERB_FORMS[form_num]]
  ELSE [kind |-> "exception", error |-> "KeyError"]

\* VerbFormDetector.get_form_info: self.verb_forms.get(form_num), which is
\* None for a number that is not a key
GetFormInfo(form_num) ==
  IF form_num \in DOMAIN VERB_FORMS
  THEN [kind |-> "form_info", info |-> VERB_FORMS[form_num]]
  ELSE [kind |-> "None"]

\* ------------------------------------------------------------ comparison table
\* the placeholders "Generated" and "N/A", as code points
GENERATED == <<71, 101, 110, 101, 114, 97, 116, 101, 100>>
NOT_AVAILABLE == <<78, 47, 65>>

\* the loop body marking the first row when no form was detected
TableRowMarkDefault(base_verb, forms_data, current_form, form_num) ==
  LET form_info == VERB_FORMS[form_num]
      dflt      == IF base_verb # <<>> THEN GENERATED ELSE NOT_AVAILABLE
      got       == IF form_num \in DOMAIN forms_data THEN forms_data[form_num] ELSE dflt
      variants  == GenerateFormVariants(base_verb, form_num)
      conjugated_verb ==
        IF got = GENERATED /\ base_verb # <<>> /\ variants # <<>>
        THEN variants[1] ELSE got
  IN  [form_num |-> form_num,
       marked |-> (form_num = (IF current_form = None THEN 1 ELSE current_form)),
       arabic_name |-> form_info.arabic_name,
       conjugated_verb |-> conjugated_verb,
       english_meaning |-> form_info.english_meaning]

\* the body of the loop of create_ascii_table for one form_num: the row's
\* form marker and its "Conjugated Verb" cell.  forms_data is a function from
\* the form numbers it has to their spellings (a dict)
TableRow(base_verb, forms_data, current_form, form_num) ==
  LET form_info == VERB_FORMS[form_num]
      dflt      == IF base_verb # <<>> THEN GENERATED ELSE NOT_AVAILABLE
      got       == IF form_num \in DOMAIN forms_data THEN forms_data[form_num] ELSE dflt
      variants  == GenerateFormVariants(base_verb, form_num)
      conjugated_verb ==
        IF got = GENERATED /\ base_verb # <<>> /\ variants # <<>>
        THEN variants[1] ELSE got
  IN  [form_num |-> form_num,
       marked |-> (form_num = current_form),
       arabic_name |-> form_info.arabic_name,
       conjugated_verb |-> conjugated_verb,
       english_meaning |-> form_info.english_meaning]

\* VerbFormDetector.create_ascii_table: the ten rows between the borders and
\* the two summary lines (present iff a form was detected)
CreateAsciiTable(base_verb, forms_data) ==
  LET detected     == IF base_verb # <<>> THEN DetectFormPattern(base_verb)
                      ELSE [form |-> None, confidence |-> 0, evaluated |-> 0]
      current_form == detected.form
  IN  [kind |-> "table",
       rows |-> [form_num \in 1..10 |->
                   TableRow(base_verb, forms_data, current_form, form_num)],
       summary |-> IF current_form # None /\ current_form # 0
                   THEN <<[verb |-> base_verb, form |-> current_form,
                           arabic_name |-> VERB_FORMS[current_form].arabic_name],
                          [confidence |-> detected.confidence]>>
                   ELSE <<>>]

\* ------------------------------------------------------------ facade
\* verb_const.VERB_FORMS_ORDER (the tests require every form 1..10 in it)
VERB_FORMS_ORDER == <<1, 2, 3, 4, 5, 6, 7, 8, 9, 10>>

\* the names create_verb_forms_table looks up on araby, in the order it tries them
ArabyStripAttrs == <<"strip_harakat", "strip_tashkeel", "strip_diacritics">>

\* the getattr chain: the first of the names that the araby build exposes
\* (attrs: the set of names it exposes), else the local identity function
RECURSIVE ResolveStripFn(_, _)
ResolveStripFn(attrs, i) ==
  IF i > Len(ArabyStripAttrs) THEN "identity"
  ELSE IF ArabyStripAttrs[i] \in attrs THEN ArabyStripAttrs[i]
       ELSE ResolveStripFn(attrs, i + 1)

\* strip_fn(text): strip_harakat keeps the shadda, strip_tashkeel and
\* strip_diacritics remove every mark, the fallback returns text as it is
StripFn(strip_fn, text) ==
  CASE strip_fn = "strip_harakat"    -> Remove(text, Marks \ {SHADDA})
    [] strip_fn = "strip_tashkeel"   -> Remove(text, Marks)
    [] strip_fn = "strip_diacritics" -> Remove(text, Marks)
    [] OTHER                         -> text

\* a value's truth in an if: None and 0 are false
Truthy(x) == x # None /\ x # 0

\* forms_data of create_verb_forms_table before the filter is applied: the
\* word at its detected form, then the first variant of every other form
FormsData(word, strip_fn) ==
  LET current_form == DetectFormPattern(word).form
      seeded    == IF Truthy(current_form) THEN {current_form} ELSE {}
      generated == IF Len(StripFn(strip_fn, word)) = 3
                   THEN {VERB_FORMS_ORDER[i] : i \in
                           {j \in 1..Len(VERB_FORMS_ORDER) :
                              /\ VERB_FORMS_ORDER[j] # current_form
                              /\ GenerateFormVariants(word, VERB_FORMS_ORDER[j]) # <<>>}}
                   ELSE {}
  IN  [n \in seeded \cup generated |->
         IF n \in generated THEN GenerateFormVariants(word, n)[1] ELSE word]

\* forms_data restricted to one form: {form_filter: forms_data[form_filter]}
FilteredData(forms_data, form_filter) ==
  [n \in {form_filter} |-> forms_data[n]]

\* create_verb_forms_table falling back to the unfiltered table when the
\* filter's form is not in forms_data
CreateVerbFormsTableFallback(word, form_filter, strip_fn) ==
  IF word = <<>> THEN [kind |-> "str", text |-> <<"No verb provided">>]
  ELSE LET forms_data == FormsData(word, strip_fn)
       IN  IF Truthy(form_filter) /\ form_filter \in DOMAIN forms_data
           THEN CreateAsciiTable(word, FilteredData(forms_data, form_filter))
           ELSE CreateAsciiTable(word, forms_data)

\* create_verb_forms_table(word, form_filter); strip_fn is its local, resolved
\* from the araby build.  A returned string is kept as its pieces
CreateVerbFormsTable(word, form_filter, strip_fn) ==
  IF word = <<>> THEN [kind |-> "str", text |-> <<"No verb provided">>]
  ELSE LET forms_data == FormsData(word, strip_fn)
       IN  IF Truthy(form_filter)
           THEN IF form_filter \in DOMAIN forms_data
                THEN CreateAsciiTable(word, FilteredData(forms_data, form_filter))
                ELSE [kind |-> "str",
                      text |-> <<"Form ", form_filter, " not available for verb '", word, "'">>]
           ELSE CreateAsciiTable(word, forms_data)

\* str.upper() on the display formats of the model
Upper(display_format) ==
  CASE display_format = "form_table" -> "FORM_TABLE"
    [] OTHER -> display_format

\* the arguments conjugate hands to libqutrub.mosaref_main.do_sarf
DoSarfArgs(word, args, display_format) ==
  [word |-> word, future_type |-> args.future_type, flags |-> args.flags,
   display_format |-> display_format]

\* libqutrub.mosaref_main.do_sarf, the external engine: it returns a result
\* for its arguments, or it raises
DoSarf(a, outcome) ==
  IF outcome = "raises" THEN [kind |-> "exception"]
  ELSE [kind |-> "conjugation", of |-> a]

\* create_comprehensive_forms_table: rendered by conjugatedisplay, an external
\* display collaborator
CreateComprehensiveFormsTable(word, future_type, transitive) ==
  [kind |-> "comprehensive_table", word |-> word, future_type |-> future_type]

\* conjugate testing the filter's truth (if form_filter:) where the code has
\* form_filter is not None: a filter of 0 is taken as no filter
ConjugateBranchTruthy(word, display_format, form_filter) ==
  IF Upper(display_format) = "FORM_TABLE" THEN "form_table"
  ELSE IF Upper(display_format) = "COMPREHENSIVE_TABLE" THEN "comprehensive_table"
  ELSE IF Truthy(form_filter) /\ DetectFormPattern(word).form # form_filter
       THEN "filter_error"
       ELSE "do_sarf"

\* which branch conjugate takes
ConjugateBranch(word, display_format, form_filter) ==
  IF Upper(display_format) = "FORM_TABLE" THEN "form_table"
  ELSE IF Upper(display_format) = "COMPREHENSIVE_TABLE" THEN "comprehensive_table"
  ELSE IF form_filter # None /\ DetectFormPattern(word).form # form_filter
       THEN "filter_error"
       ELSE "do_sarf"

\* the error string of conjugate, as its pieces
FilterError(word, detected_form, form_filter) ==
  [kind |-> "str",
   text |-> <<"Error: Verb '", word, "' is Form ", detected_form,
              ", not Form ", form_filter>>]

\* ------------------------------------------------------------ comprehensive records
\* form_definitions of get_comprehensive_forms_data
FORM_DEFINITIONS ==
  << [form_num |-> 1, roman |-> "I", meaning |-> "REGULAR",
      pattern |-> <<FEH, FATHA, AIN, FATHA, LAM, FATHA>>],
     [form_num |-> 2, roman |-> "II", meaning |-> "CAUSATIVE/INTENSIVE OR DENOMINATIVE",
      pattern |-> <<FEH, FATHA, AIN, FATHA, SHADDA, LAM, FATHA>>],
     [form_num |-> 3, roman |-> "III", meaning |-> "RECIPROCAL",
      pattern |-> <<FEH, FATHA, ALEF, AIN, FATHA, LAM, FATHA>>],
     [form_num |-> 4, roman |-> "IV", meaning |-> "CAUSATIVE",
      pattern |-> <<ALEF_HAMZA_ABOVE, FATHA, FEH, SUKUN, AIN, FATHA, LAM, FATHA>>],
     [form_num |-> 5, roman |-> "V", meaning |-> "REFLEXIVE OF II",
      pattern |-> <<TEH, FATHA, FEH, FATHA, AIN, FATHA, SHADDA, LAM, FATHA>>],
     [form_num |-> 6, roman |-> "VI", meaning |-> "REFLEXIVE OF III",
      pattern |-> <<TEH, FATHA, FEH, FATHA, ALEF, AIN, FATHA, LAM, FATHA>>],
     [form_num |-> 7, roman |-> "VII", meaning |-> "PASSIVE OF I",
      pattern |-> <<ALEF, KASRA, NOON, SUKUN, FEH, FATHA, AIN, FATHA, LAM, FATHA>>],
     [form_num |-> 8, roman |-> "VIII", meaning |-> "REFLEXIVE OF I",
      pattern |-> <<ALEF, KASRA, FEH, SUKUN, TEH, FATHA, AIN, FATHA, LAM, FATHA>>],
     [form_num |-> 9, roman |-> "IX", meaning |-> "COLORS DEFECTS",
      pattern |-> <<ALEF, KASRA, FEH, SUKUN, AIN, FATHA, LAM, FATHA, SHADDA>>],
     [form_num |-> 10, roman |-> "X", meaning |-> "CAUSATIVE REFLEXIVE",
      pattern |-> <<ALEF, KASRA, SEEN, SUKUN, TEH, FATHA, FEH, SUKUN, AIN, FATHA, LAM, FATHA>>] >>

\* the placeholder, an em dash
PLACEHOLDER == <<8212>>

\* str(form_num), the decimal numeral of a form number
Decimal(n) == IF n < 10 THEN <<48 + n>> ELSE <<48 + (n \div 10), 48 + (n % 10)>>

\* a string held in a field of a record
Str(s) == [kind |-> "str", text |-> s]

\* the keys get_comprehensive_forms_data reads in result.text (ism al-makan,
\* ism al-maf`ul, ism al-fa`il, al-masdar), the tenses it reads in
\* result.tab_conjug (al-madi al-majhul, al-mudari` al-majhul, al-amr,
\* al-mudari` al-ma`lum, al-madi al-ma`lum) and the pronouns (huwa, anta)
NounKeys == {"ism_makan", "ism_mafoul", "ism_fael", "masdar"}
TenseKeys == {"madi_majhul", "mudari_majhul", "amr", "mudari_maloom", "madi_maloom"}
Pronouns == {"huwa", "anta"}

\* do_sarf(..., display_format="DICT"), the external engine.  It raises, or it
\* returns None, a formatted string, or a structured result: text maps the noun
\* keys it has to a derivative, tab_conjug maps the tenses it has to the
\* pronouns it has for them.  What it returns is opaque: a value names the verb
\* and the key it stands under
DoSarfDict(a, outcome) ==
  CASE outcome.kind = "raises" -> [kind |-> "exception"]
    [] outcome.kind = "structured" ->
         [kind |-> "structured",
          text |-> [k \in outcome.nouns |->
                      [kind |-> "sarf", of |-> a.word, key |-> k, pronoun |-> ""]],
          tab_conjug |-> [t \in DOMAIN outcome.tenses |->
                            [p \in outcome.tenses[t] |->
                               [kind |-> "sarf", of |-> a.word, key |-> t, pronoun |-> p]]]]
    [] OTHER -> [kind |-> outcome.kind]

\* dict.get(key, default)
Get(mapping, key, default) ==
  IF key \in DOMAIN mapping THEN mapping[key] ELSE default

\* {} as the default of the first .get on tab_conjug
EmptyDict == [p \in {} |-> PLACEHOLDER]

\* verb_form of the loop body when no spelling was found (None)
NoSpelling == <<>>

\* verb_form of the loop body: the word at its detected form, else the first
\* variant when the stripped word has three letters, else None
VerbForm(word, form_num, current_form, stripped_word) ==
  IF form_num = current_form THEN word
  ELSE IF Len(stripped_word) = 3
       THEN LET variants == GenerateFormVariants(word, form_num)
            IN  IF variants # <<>> THEN variants[1] ELSE NoSpelling
       ELSE NoSpelling

\* the nine fields when the engine gave nothing to read
Placeholders(active_perfect) ==
  [Noun_Place_Time |-> Str(PLACEHOLDER), Passive_Participle |-> Str(PLACEHOLDER),
   Active_Participle |-> Str(PLACEHOLDER), Masdar |-> Str(PLACEHOLDER),
   Passive_Perfect |-> Str(PLACEHOLDER), Passive_Imperfect |-> Str(PLACEHOLDER),
   Imperative |-> Str(PLACEHOLDER), Active_Imperfect |-> Str(PLACEHOLDER),
   Active_Perfect |-> active_perfect]

\* the extraction reading every tense under huwa, the imperative included
\* (the code reads the imperative under anta)
ExtractedAllHuwa(result, verb_form) ==
  [Noun_Place_Time    |-> Get(result.text, "ism_makan", Str(PLACEHOLDER)),
   Passive_Participle |-> Get(result.text, "ism_mafoul", Str(PLACEHOLDER)),
   Active_Participle  |-> Get(result.text, "ism_fael", Str(PLACEHOLDER)),
   Masdar             |-> Get(result.text, "masdar", Str(PLACEHOLDER)),
   Passive_Perfect    |-> Get(Get(result.tab_conjug, "madi_majhul", EmptyDict),
                              "huwa", Str(PLACEHOLDER)),
   Passive_Imperfect  |-> Get(Get(result.tab_conjug, "mudari_majhul", EmptyDict),
                              "huwa", Str(PLACEHOLDER)),
   Imperative         |-> Get(Get(result.tab_conjug, "amr", EmptyDict),
                              "huwa", Str(PLACEHOLDER)),
   Active_Imperfect   |-> Get(Get(result.tab_conjug, "mudari_maloom", EmptyDict),
                              "huwa", Str(PLACEHOLDER)),
   Active_Perfect     |-> Get(Get(result.tab_conjug, "madi_maloom", EmptyDict),
                              "huwa", Str(verb_form))]

\* the nine fields read from a structured result
Extracted(result, verb_form) ==
  [Noun_Place_Time    |-> Get(result.text, "ism_makan", Str(PLACEHOLDER)),
   Passive_Participle |-> Get(result.text, "ism_mafoul", Str(PLACEHOLDER)),
   Active_Participle  |-> Get(result.text, "ism_fael", Str(PLACEHOLDER)),
   Masdar             |-> Get(result.text, "masdar", Str(PLACEHOLDER)),
   Passive_Perfect    |-> Get(Get(result.tab_conjug, "madi_majhul", EmptyDict),
                              "huwa", Str(PLACEHOLDER)),
   Passive_Imperfect  |-> Get(Get(result.tab_conjug, "mudari_majhul", EmptyDict),
                              "huwa", Str(PLACEHOLDER)),
   Imperative         |-> Get(Get(result.tab_conjug, "amr", EmptyDict),
                              "anta", Str(PLACEHOLDER)),
   Active_Imperfect   |-> Get(Get(result.tab_conjug, "mudari_maloom", EmptyDict),
                              "huwa", Str(PLACEHOLDER)),
   Active_Perfect     |-> Get(Get(result.tab_conjug, "madi_maloom", EmptyDict),
                              "huwa", Str(verb_form))]

\* the except branch falling back to the skeleton where the code has the
\* spelling (verb_form if verb_form else pattern, taken at its else)
FormDataSkeleton(defn, verb_form, result) ==
  [Form |-> Decimal(defn.form_num), Roman |-> defn.roman,
   Pattern |-> defn.pattern, Meaning |-> defn.meaning]
  @@ (IF verb_form = NoSpelling THEN Placeholders(Str(PLACEHOLDER))
      ELSE CASE result.kind = "exception"  -> Placeholders(Str(defn.pattern))
             [] result.kind = "structured" -> Extracted(result, verb_form)
             [] OTHER                      -> Placeholders(Str(verb_form)))

\* form_data of one turn of the loop: result is what do_sarf did for verb_form
\* (not called when there is no spelling).  The debug block of form 1 writes
\* the keys of a structured result to stderr and changes nothing
FormData(defn, verb_form, result) ==
  [Form |-> Decimal(defn.form_num), Roman |-> defn.roman,
   Pattern |-> defn.pattern, Meaning |-> defn.meaning]
  @@ (IF verb_form = NoSpelling THEN Placeholders(Str(PLACEHOLDER))
      ELSE CASE result.kind = "exception"  -> Placeholders(Str(verb_form))
             [] result.kind = "structured" -> Extracted(result, verb_form)
             [] OTHER                      -> Placeholders(Str(verb_form)))

\* the arguments of the engine call of the loop: do_sarf(verb_form,
\* future_type, alltense=True, transitive=False, display_format="DICT")
DictSarfArgs(verb_form, future_type) ==
  DoSarfArgs(verb_form,
             [future_type |-> future_type,
              flags |-> <<TRUE, FALSE, FALSE, FALSE, FALSE, FALSE, FALSE, FALSE>>],
             "DICT")

\* get_comprehensive_forms_data(word, future_type): the list it returns.
\* strip_fn is its local, resolved from the araby build; outcomes[n] is what
\* the engine does when called in the turn of form n
GetComprehensiveFormsData(word, future_type, strip_fn, outcomes) ==
  LET current_form  == DetectFormPattern(word).form
      stripped_word == StripFn(strip_fn, word)
  IN  [i \in 1..Len(FORM_DEFINITIONS) |->
         LET defn      == FORM_DEFINITIONS[i]
             verb_form == VerbForm(word, defn.form_num, current_form, stripped_word)
         IN  FormData(defn, verb_form,
                      DoSarfDict(DictSarfArgs(verb_form, future_type),
                                 outcomes[defn.form_num]))]

\* the engine calls get_comprehensive_forms_data makes, in order
ComprehensiveSarfCalls(word, future_type, strip_fn) ==
  LET current_form  == DetectFormPattern(word).form
      stripped_word == StripFn(strip_fn, word)
      turn == [i \in 1..Len(FORM_DEFINITIONS) |->
                 DictSarfArgs(VerbForm(word, FORM_DEFINITIONS[i].form_num,
                                       current_form, stripped_word), future_type)]
      called(a) == a.word # NoSpelling
  IN  SelectSeq(turn, called)

\* ------------------------------------------------------------ inputs
\* bound: the longest string of the exhaustive short inputs
MaxLen == 3

ShortAlphabet == {KAF, TEH, ALEF, FATHA, SHADDA}

ShortWords == UNION {[1..n -> ShortAlphabet] : n \in 0..MaxLen}

\* the roots of the fixture-shaped inputs: k-t-b and its neighbours
Roots == {<<c1, c2, BEH>> : c1 \in {KAF, TEH, BEH, FEH}, c2 \in {KAF, TEH}}

\* the spellings of the test fixtures, for root letters c1 c2 c3 (0: the
\* unvocalized fixture)
Fixture(n, c1, c2, c3) ==
  CASE n = 1  -> <<c1, FATHA, c2, FATHA, c3, FATHA>>
    [] n = 2  -> <<c1, FATHA, c2, FATHA, SHADDA, c3, FATHA>>
    [] n = 3  -> <<c1, FATHA, ALEF, c2, FATHA, c3, FATHA>>
    [] n = 4  -> <<ALEF_HAMZA_ABOVE, FATHA, c1, SUKUN, c2, FATHA, c3, FATHA>>
    [] n = 5  -> <<TEH, FATHA, c1, FATHA, c2, FATHA, SHADDA, c3, FATHA>>
    [] n = 6  -> <<TEH, FATHA, c1, FATHA, ALEF, c2, FATHA, c3, FATHA>>
    [] n = 7  -> <<ALEF, KASRA, NOON, SUKUN, c1, FATHA, c2, FATHA, c3, FATHA>>
    [] n = 8  -> <<ALEF, KASRA, c1, SUKUN, TEH, FATHA, c2, FATHA, c3, FATHA>>
    [] n = 10 -> <<ALEF, KASRA, SEEN, SUKUN, TEH, FATHA, c1, SUKUN, c2, FATHA, c3, FATHA>>
    [] OTHER  -> <<c1, c2, c3>>

FixtureForms == {0, 1, 2, 3, 4, 5, 6, 7, 8, 10}

FixtureWords ==
  {Fixture(n, r[1], r[2], r[3]) : n \in FixtureForms, r \in Roots}

\* the verbs the operations are called with
Words == ShortWords \cup FixtureWords \cup {StripVocalization(w) : w \in FixtureWords}

\* verbs on which more than one rule condition holds: Forms VII and IX, Forms
\* VIII and IX, Forms V and VI, Forms III, V and VI, Forms II, VII and IX,
\* Forms II, VIII and IX
OverlapWords ==
  { <<ALEF, KASRA, NOON, KAF, TEH, BEH, SHADDA>>,
    <<ALEF, KASRA, FEH, TEH, KAF, BEH, SHADDA>>,
    <<TEH, FATHA, KAF, ALEF, TEH, SHADDA, BEH, FATHA>>,
    <<TEH, FATHA, ALEF, KAF, SHADDA, TEH, BEH>>,
    <<ALEF_WASLA, KASRA, NOON, KAF, SHADDA, TEH, BEH, SHADDA>>,
    <<ALEF_WASLA, KASRA, FEH, TEH, SHADDA, KAF, BEH, SHADDA>> }

\* form numbers asked of the generator, and form filters
FormNumbers == 0..11
FormFilters == {None} \cup (0..11)

DisplayFormats == {"HTML", "FORM_TABLE", "form_table", "COMPREHENSIVE_TABLE"}

\* the other arguments of conjugate: future_type and the eight flags
\* (alltense, past, future, passive, imperative, future_moode, confirmed,
\* transitive)
CallerArgs ==
  {[future_type |-> "damma",
    flags |-> <<TRUE, FALSE, FALSE, FALSE, FALSE, FALSE, FALSE, FALSE>>],
   [future_type |-> "fatha",
    flags |-> <<FALSE, TRUE, FALSE, TRUE, FALSE, FALSE, FALSE, TRUE>>]}

ArabyBuilds == SUBSET {ArabyStripAttrs[i] : i \in 1..Len(ArabyStripAttrs)}

\* the forms_data dicts create_ascii_table is called with: none, the dicts of
\* the table tests, a spelling for the form without a template, a supplied
\* spelling that reads "Generated", and one that reads "N/A"
SuppliedForms ==
  { <<>>,
    (1 :> Fixture(1, KAF, TEH, BEH)),
    (1 :> Fixture(1, KAF, TEH, BEH) @@ 2 :> Fixture(2, KAF, TEH, BEH)
       @@ 3 :> Fixture(3, KAF, TEH, BEH) @@ 4 :> Fixture(4, KAF, TEH, BEH)),
    (9 :> <<ALEF, KASRA, KAF, SUKUN, TEH, FATHA, BEH, SHADDA, FATHA>>),
    (2 :> GENERATED),
    (3 :> NOT_AVAILABLE) }

\* the verbs get_comprehensive_forms_data is called with: none, the
\* unvocalized fixture, fixtures of Forms I, II and VII, and a two-letter word
ComprehensiveWords ==
  { <<>>, Fixture(0, KAF, TEH, BEH), Fixture(1, KAF, TEH, BEH),
    Fixture(2, KAF, TEH, BEH), Fixture(7, KAF, TEH, BEH), <<KAF, FATHA, TEH, FATHA>> }

FutureTypes == {a.future_type : a \in CallerArgs}

\* a structured result with these noun keys, and these pronouns under each tense
Structured(nouns, tenses) == [kind |-> "structured", nouns |-> nouns, tenses |-> tenses]

\* a result that is not structured
Unstructured(kind) == [kind |-> kind, nouns |-> {}, tenses |-> [t \in {} |-> {}]]

\* what the engine may do in one turn: raise, return None, return a formatted
\* string, return the complete structured result, one with a noun key missing,
\* with a tense missing, with a tense that lacks its pronouns, or an empty one
EngineOutcomes ==
  {Unstructured("raises"), Unstructured("None"), Unstructured("string")}
  \cup {Structured(NounKeys, [t \in TenseKeys |-> Pronouns])}
  \cup {Structured(NounKeys \ {k}, [t \in TenseKeys |-> Pronouns]) : k \in NounKeys}
  \cup {Structured(NounKeys, [t \in TenseKeys \ {m} |-> Pronouns]) : m \in TenseKeys}
  \cup {Structured(NounKeys, [t \in TenseKeys |-> IF t = m THEN {} ELSE Pronouns]) :
          m \in TenseKeys}
  \cup {Structured({}, [t \in {} |-> {}])}

\* ------------------------------------------------------------ state machine
Init ==
  /\ call = [op |-> "idle"]
  /\ ret = [kind |-> "none"]
  /\ engine = <<>>

Idle == call.op = "idle"

\* detect_verb_form(verb)
DetectVerbForm ==
  /\ Idle
  /\ \E verb \in Words \cup OverlapWords :
       /\ call' = [op |-> "detect_verb_form", word |-> verb]
       /\ ret' = [kind |-> "classification"] @@ DetectFormPattern(verb)
  /\ UNCHANGED engine

\* detector.generate_form_variants(root_verb, form_num)
GenerateVariants ==
  /\ Idle
  /\ \E root_verb \in Words, form_num \in FormNumbers :
       /\ call' = [op |-> "generate_form_variants", word |-> root_verb,
                   form_num |-> form_num]
       /\ ret' = [kind |-> "variants",
                  variants |-> GenerateFormVariants(root_verb, form_num)]
  /\ UNCHANGED engine

\* conjugator.create_verb_forms_table(word, form_filter)
FormsTable ==
  /\ Idle
  /\ \E word \in Words, form_filter \in FormFilters, attrs \in ArabyBuilds :
       LET strip_fn == ResolveStripFn(attrs, 1)
       IN  /\ call' = [op |-> "create_verb_forms_table", word |-> word,
                       form_filter |-> form_filter, strip_fn |-> strip_fn]
           /\ ret' = CreateVerbFormsTable(word, form_filter, strip_fn)
  /\ UNCHANGED engine

\* verb_form_detector.create_verb_forms_table(base_verb, forms_data), which is
\* detector.create_ascii_table(base_verb, forms_data)
AsciiTable ==
  /\ Idle
  /\ \E base_verb \in Words, forms_data \in SuppliedForms :
       /\ call' = [op |-> "create_ascii_table", word |-> base_verb,
                   forms_data |-> forms_data]
       /\ ret' = CreateAsciiTable(base_verb, forms_data)
  /\ UNCHANGED engine

\* detector.get_form_info(form_num)
FormInfo ==
  /\ Idle
  /\ \E form_num \in FormFilters :
       /\ call' = [op |-> "get_form_info", form_num |-> form_num]
       /\ ret' = GetFormInfo(form_num)
  /\ UNCHANGED engine

\* conjugator.get_comprehensive_forms_data(word, future_type): the engine does
\* outcome in the turn of one form and rest in the turns of the others
ComprehensiveData ==
  /\ Idle
  /\ \E word \in ComprehensiveWords, future_type \in FutureTypes,
        attrs \in ArabyBuilds, form \in 1..10, outcome \in EngineOutcomes,
        rest \in {Unstructured("raises"), Structured(NounKeys, [t \in TenseKeys |-> Pronouns])} :
       LET strip_fn == ResolveStripFn(attrs, 1)
           outcomes == [n \in 1..10 |-> IF n = form THEN outcome ELSE rest]
       IN  /\ call' = [op |-> "get_comprehensive_forms_data", word |-> word,
                       future_type |-> future_type, strip_fn |-> strip_fn,
                       outcomes |-> outcomes]
           /\ ret' = [kind |-> "records",
                      records |-> GetComprehensiveFormsData(word, future_type,
                                                            strip_fn, outcomes)]
           /\ engine' = engine \o ComprehensiveSarfCalls(word, future_type, strip_fn)

\* conjugator.conjugate(word, future_type, flags, display_format, form_filter);
\* the araby build matters on the FORM_TABLE branch only, the engine's outcome
\* only when the engine is called
Conjugate ==
  /\ Idle
  /\ \E word \in Words, args \in CallerArgs, display_format \in DisplayFormats,
        form_filter \in FormFilters :
       LET branch == ConjugateBranch(word, display_format, form_filter)
           sarf   == DoSarfArgs(word, args, display_format)
           made(strip_fn) ==
             [op |-> "conjugate", word |-> word, args |-> args,
              display_format |-> display_format,
              form_filter |-> form_filter, strip_fn |-> strip_fn]
       IN  CASE branch = "form_table" ->
                  \E attrs \in ArabyBuilds :
                    /\ call' = made(ResolveStripFn(attrs, 1))
                    /\ ret' = CreateVerbFormsTable(word, form_filter,
                                                   ResolveStripFn(attrs, 1))
                    /\ engine' = engine
             [] branch = "comprehensive_table" ->
                  /\ call' = made("unused")
                  /\ ret' = CreateComprehensiveFormsTable(word, args.future_type,
                                                          args.flags[8])
                  /\ engine' = engine
             [] branch = "filter_error" ->
                  /\ call' = made("unused")
                  /\ ret' = FilterError(word, DetectFormPattern(word).form, form_filter)
                  /\ engine' = engine
             [] OTHER ->
                  \E outcome \in {"returns", "raises"} :
                    /\ call' = made("unused")
                    /\ ret' = DoSarf(sarf, outcome)
                    /\ engine' = Append(engine, sarf)

Next ==
  \/ DetectVerbForm
  \/ GenerateVariants
  \/ FormsTable
  \/ AsciiTable
  \/ FormInfo
  \/ ComprehensiveData
  \/ Conjugate

Spec == Init /\ [][Next]_vars

\* ------------------------------------------------------------ the calls
\* the state after detect_verb_form(w) returned
Detected(w) == call.op = "detect_verb_form" /\ call.word = w

Classifying == call.op = "detect_verb_form"

Generating == call.op = "generate_form_variants"

\* the state after create_verb_forms_table returned, called directly or
\* through conjugate's FORM_TABLE format
TableCall ==
  \/ call.op = "create_verb_forms_table"
  \/ (call.op = "conjugate" /\ Upper(call.display_format) = "FORM_TABLE")

\* the state after conjugate returned from a format that is neither table
\* format, with a form filter
FilteredConjugation ==
  /\ call.op = "conjugate"
  /\ Upper(call.display_format) \notin {"FORM_TABLE", "COMPREHENSIVE_TABLE"}
  /\ call.form_filter # None

\* ------------------------------------------------------------ claims

\* C1: detect_form_pattern maps the fixtures of Forms I, II, III, IV, VII and X
\* of the root k-t-b each to its own form number, with confidence 0.9.
C1_CanonicalFixtures ==
  \A n \in {1, 2, 3, 4, 7, 10} :
    Detected(Fixture(n, KAF, TEH, BEH)) =>
      (ret.form = n /\ ret.confidence = MATCH_CONFIDENCE)

C1_Witness ==
  /\ Detected(Fixture(4, KAF, TEH, BEH))
  /\ ret.form = 4
  /\ ret.confidence = MATCH_CONFIDENCE

\* C2: a verb in the Form VIII shape alef+i+C1+sukun+ta+a+C2+a+C3+a is
\* classified (8, 0.9) whatever its first root consonant C1 is.
C2_FormVIIIShape ==
  \A r \in Roots :
    Detected(Fixture(8, r[1], r[2], r[3])) =>
      (ret.form = 8 /\ ret.confidence = MATCH_CONFIDENCE)

\* C3: a fully vocalized verb in the Form VI shape ta+a+C1+a+alef+C2+a+C3+a
\* (the alef is the 5th code point) is classified (6, 0.9).
C3_FormVIShape ==
  \A r \in Roots :
    Detected(Fixture(6, r[1], r[2], r[3])) =>
      (ret.form = 6 /\ ret.confidence = MATCH_CONFIDENCE)

\* C4: the Form V fixture ta+a+kaf+a+ta+a+shadda+ba+a, which has four letters
\* once every mark is removed, is classified (5, 0.9).
C4_FormVFixture ==
  (/\ Detected(Fixture(5, KAF, TEH, BEH))
   /\ Len(StripVocalization(call.word)) = 4)
    => (ret.form = 5 /\ ret.confidence = MATCH_CONFIDENCE)

\* C5: for an input that is empty or has none of the five marks the result is
\* (None, 0) and no rule condition is evaluated.
C5_UnvocalizedUnclassified ==
  (Classifying /\ \A i \in 1..Len(call.word) : call.word[i] \notin Marks) =>
    (ret.form = None /\ ret.confidence = 0 /\ ret.evaluated = 0)

C5_Witness ==
  /\ Detected(<<KAF, TEH, BEH>>)
  /\ ret.form = None
  /\ ret.evaluated = 0

\* C6: conjugate with a format other than the two table formats and a form
\* filter: when the detected form differs from the filter (None included) it
\* returns the error string and never calls the engine; when they are equal it
\* calls the engine exactly once with its own arguments and returns what the
\* engine returned.
C6_FilterValidation ==
  FilteredConjugation =>
    LET detected == DetectFormPattern(call.word).form
        passed   == [word |-> call.word, future_type |-> call.args.future_type,
                     flags |-> call.args.flags,
                     display_format |-> call.display_format]
    IN  /\ detected # call.form_filter =>
             /\ ret.kind = "str"
             /\ ret.text = <<"Error: Verb '", call.word, "' is Form ", detected,
                             ", not Form ", call.form_filter>>
             /\ engine = <<>>
        /\ detected = call.form_filter =>
             /\ engine = <<passed>>
             /\ ret.kind \in {"conjugation", "exception"}
             /\ ret.kind = "conjugation" => ret.of = passed

C6_Witness ==
  /\ FilteredConjugation
  /\ call.word = Fixture(1, KAF, TEH, BEH)
  /\ call.form_filter = 2
  /\ ret.kind = "str"
  /\ ret.text[4] = 1
  /\ engine = <<>>

\* C7: generate_form_variants is non-empty for every form in {1..8, 10} when
\* the input strips to exactly 3 letters, empty for form 9, and empty for
\* every form when the stripped length is not 3.
C7_VariantsCoverage ==
  Generating =>
    LET n == Len(StripVocalization(call.word))
    IN  /\ (n = 3 /\ call.form_num \in ((1..8) \cup {10})) => ret.variants # <<>>
        /\ call.form_num = 9 => ret.variants = <<>>
        /\ n # 3 => ret.variants = <<>>

C7_Witness ==
  /\ Generating
  /\ call.word = Fixture(1, KAF, TEH, BEH)
  /\ call.form_num = 10
  /\ Len(ret.variants) = 2

\* C8: for a triliteral input the first Form II variant contains the fully
\* vocalized Form II spelling f1+a+f2+(shadda, a)+f3+a, and the first Form IV
\* variant contains alef-hamza+a+f1+sukun+f2+a+f3+a.
C8_CanonicalVariants ==
  (Generating /\ Len(StripVocalization(call.word)) = 3) =>
    LET f == StripVocalization(call.word)
    IN  /\ call.form_num = 2 =>
             /\ ret.variants # <<>>
             /\ \/ Contains(<<f[1], FATHA, f[2], FATHA, SHADDA, f[3], FATHA>>,
                            ret.variants[1])
                \/ Contains(<<f[1], FATHA, f[2], SHADDA, FATHA, f[3], FATHA>>,
                            ret.variants[1])
        /\ call.form_num = 4 =>
             /\ ret.variants # <<>>
             /\ Contains(Fixture(4, f[1], f[2], f[3]), ret.variants[1])

\* C9: create_verb_forms_table with a form filter that is in the forms map
\* returns a table restricted to that form: its row shows the form's spelling
\* and no other row shows a verb.
C9_FilteredTable ==
  (TableCall /\ Truthy(call.form_filter) /\ ret.kind = "table") =>
    \A n \in 1..10 :
      IF n = call.form_filter
      THEN ret.rows[n].conjugated_verb
             = FormsData(call.word, call.strip_fn)[call.form_filter]
      ELSE ret.rows[n].conjugated_verb \in {GENERATED, NOT_AVAILABLE}

\* C10: create_verb_forms_table returns "No verb provided" for an empty word
\* whatever the filter; for a non-empty word and a filter in 1..10 that is
\* neither the detected form nor a form a candidate was generated for, it
\* returns "Form {filter} not available for verb '{word}'".
C10_Sentinels ==
  TableCall =>
    LET word   == call.word
        filter == call.form_filter
        generated_for_filter ==
          /\ Len(StripFn(call.strip_fn, word)) = 3
          /\ GenerateFormVariants(word, filter) # <<>>
    IN  /\ word = <<>> =>
             (ret.kind = "str" /\ ret.text = <<"No verb provided">>)
        /\ (/\ word # <<>>
            /\ filter \in 1..10
            /\ filter # DetectFormPattern(word).form
            /\ ~generated_for_filter) =>
             /\ ret.kind = "str"
             /\ ret.text = <<"Form ", filter, " not available for verb '", word, "'">>

C10_Witness ==
  /\ TableCall
  /\ call.word = Fixture(1, KAF, TEH, BEH)
  /\ call.form_filter = 9
  /\ ret.kind = "str"
  /\ ret.text[2] = 9

\* the state after create_ascii_table(base_verb, forms_data) returned
ComparisonTable == call.op = "create_ascii_table"

C13_EmptyDataShowsNA ==
  (/\ ComparisonTable
   /\ call.word # <<>>
   /\ IsVocalized(call.word)
   /\ call.forms_data = <<>>) =>
    \E n \in 1..10 : Contains(NOT_AVAILABLE, ret.rows[n].conjugated_verb)

\* the state after get_form_info(form_num) returned
LookedUp == call.op = "get_form_info"

\* C14 as claimed: get_form_info returns the descriptor whose form_num is the
\* argument for every argument in 1..10, and fails with an error, rather than
\* returning None, for every argument outside 1..10.
C14_LookupRaises ==
  LookedUp =>
    IF call.form_num \in 1..10
    THEN ret.kind = "form_info" /\ ret.info.form_num = call.form_num
    ELSE ret.kind = "exception"

\* C14 as amended: get_form_info returns the descriptor whose form_num is the
\* argument for every argument in 1..10, and returns None, without raising,
\* for every argument outside 1..10.
C14_LookupOrNone ==
  LookedUp =>
    IF call.form_num \in 1..10
    THEN ret.kind = "form_info" /\ ret.info.form_num = call.form_num
    ELSE ret.kind = "None"

C14_Witness ==
  /\ LookedUp
  /\ call.form_num = 11
  /\ ret.kind = "None"

\* the state after get_comprehensive_forms_data returned
Comprehensive == call.op = "get_comprehensive_forms_data"

\* the spelling the call worked out for form n (NoSpelling when none)
SpellingOf(n) ==
  VerbForm(call.word, n, DetectFormPattern(call.word).form,
           StripFn(call.strip_fn, call.word))

\* the eight fields other than Active_Perfect
OtherFields ==
  {"Noun_Place_Time", "Passive_Participle", "Active_Participle", "Masdar",
   "Passive_Perfect", "Passive_Imperfect", "Imperative", "Active_Imperfect"}

\* C15: an exception of the engine in the turn of any form is not propagated
\* by get_comprehensive_forms_data: the record of that form has the placeholder
\* in the eight other fields and the computed spelling in Active_Perfect, the
\* other forms are still processed, the engine is called once for every form
\* that has a spelling and for no other, and the result is ten records in
\* form order 1..10.
C15_EngineFailureContained ==
  Comprehensive =>
    /\ ret.kind = "records"
    /\ DOMAIN ret.records = 1..10
    /\ \A n \in 1..10 : ret.records[n].Form = Decimal(n)
    /\ \A n \in 1..10 :
         (call.outcomes[n].kind = "raises" /\ SpellingOf(n) # NoSpelling) =>
           /\ \A f \in OtherFields : ret.records[n][f] = Str(PLACEHOLDER)
           /\ ret.records[n].Active_Perfect = Str(SpellingOf(n))
    /\ \A n \in 1..10 :
         (call.outcomes[n] = Structured(NounKeys, [t \in TenseKeys |-> Pronouns])
            /\ SpellingOf(n) # NoSpelling) =>
           \A f \in OtherFields \cup {"Active_Perfect"} :
             ret.records[n][f].kind = "sarf" /\ ret.records[n][f].of = SpellingOf(n)
    /\ Len(engine) = Cardinality({n \in 1..10 : SpellingOf(n) # NoSpelling})
    /\ \A i, j \in 1..Len(engine) : i # j => engine[i].word # engine[j].word
    /\ \A i \in 1..Len(engine) :
         /\ engine[i].display_format = "DICT"
         /\ engine[i].future_type = call.future_type
         /\ \E n \in 1..10 : SpellingOf(n) # NoSpelling /\ engine[i].word = SpellingOf(n)

C15_Witness ==
  /\ Comprehensive
  /\ call.word = Fixture(1, KAF, TEH, BEH)
  /\ call.outcomes[3].kind = "raises"
  /\ call.outcomes[4].kind = "structured"
  /\ ret.records[3].Active_Perfect = Str(<<KAF, FATHA, ALEF, TEH, FATHA, BEH>>)
  /\ ret.records[3].Masdar = Str(PLACEHOLDER)
  /\ ret.records[4].Masdar.kind = "sarf"
  /\ Len(engine) = 9

\* where each field is to be found in a structured result: its key, and its
\* pronoun ("" for a noun derivative)
FieldKey ==
  [Noun_Place_Time    |-> <<"ism_makan", "">>,
   Passive_Participle |-> <<"ism_mafoul", "">>,
   Active_Participle  |-> <<"ism_fael", "">>,
   Masdar             |-> <<"masdar", "">>,
   Passive_Perfect    |-> <<"madi_majhul", "huwa">>,
   Passive_Imperfect  |-> <<"mudari_majhul", "huwa">>,
   Imperative         |-> <<"amr", "anta">>,
   Active_Imperfect   |-> <<"mudari_maloom", "huwa">>,
   Active_Perfect     |-> <<"madi_maloom", "huwa">>]

\* the engine's result in the turn of form n holds the entry of field f
HasEntry(n, f) ==
  LET o == call.outcomes[n]
  IN  IF FieldKey[f][2] = "" THEN FieldKey[f][1] \in o.nouns
      ELSE /\ FieldKey[f][1] \in DOMAIN o.tenses
           /\ FieldKey[f][2] \in o.tenses[FieldKey[f][1]]

\* the entry of field f in the engine's result for form n
Entry(n, f) ==
  [kind |-> "sarf", of |-> SpellingOf(n), key |-> FieldKey[f][1],
   pronoun |-> FieldKey[f][2]]

\* the engine returned a structured result in the turn of form n
StructuredTurn(n) ==
  call.outcomes[n].kind = "structured" /\ SpellingOf(n) # NoSpelling

\* C16 as claimed: when the engine returns a structured result for a form,
\* each of the nine fields equals the value under its key and equals the
\* placeholder whenever the key (or its pronoun entry) is absent, the
\* active-perfect field included.
C16_AbsentIsPlaceholder ==
  Comprehensive =>
    \A n \in 1..10 : StructuredTurn(n) =>
      \A f \in DOMAIN FieldKey :
        ret.records[n][f] = IF HasEntry(n, f) THEN Entry(n, f) ELSE Str(PLACEHOLDER)

\* C16 as amended: when the engine returns a structured result for a form,
\* each of the nine fields equals the value under its key; when the key (or
\* its pronoun entry) is absent, the eight fields other than Active_Perfect
\* equal the placeholder and Active_Perfect equals the computed spelling.
C16_AbsentIsPlaceholderOrSpelling ==
  Comprehensive =>
    \A n \in 1..10 : StructuredTurn(n) =>
      \A f \in DOMAIN FieldKey :
        ret.records[n][f] =
          IF HasEntry(n, f) THEN Entry(n, f)
          ELSE IF f = "Active_Perfect" THEN Str(SpellingOf(n)) ELSE Str(PLACEHOLDER)

C16_Witness ==
  /\ Comprehensive
  /\ call.word = Fixture(1, KAF, TEH, BEH)
  /\ StructuredTurn(2)
  /\ ~HasEntry(2, "Active_Perfect")
  /\ HasEntry(2, "Masdar")
  /\ ret.records[2].Active_Perfect = Str(<<KAF, FATHA, TEH, SHADDA, FATHA, BEH>>)
  /\ ret.records[2].Masdar = Entry(2, "Masdar")

\* the rule for form n holds on the normalized input of the call
Holds(n) ==
  Condition(n, NormalizeVerb(call.word),
            Len(StripVocalization(NormalizeVerb(call.word))))

\* the classification is the earliest form, in the order II, III, IV, V, VI,
\* VII, VIII, IX, X, I, whose rule holds, with confidence 0.9; (None, 0) when
\* no rule holds
EarliestMatch ==
  LET order   == <<2, 3, 4, 5, 6, 7, 8, 9, 10, 1>>
      matches == {i \in 1..10 : Holds(order[i])}
  IN  IF matches = {}
      THEN ret.form = None /\ ret.confidence = 0
      ELSE /\ \E i \in matches : /\ \A j \in matches : i <= j
                                 /\ ret.form = order[i]
           /\ ret.confidence = MATCH_CONFIDENCE

\* a non-empty vocalized input was classified
ClassifiedVocalized ==
  Classifying /\ call.word # <<>> /\ IsVocalized(call.word)

\* C17 as claimed: for every non-empty vocalized input, classify returns
\* (n, 0.9) for the earliest form n in the order II, III, IV, V, VI, VII,
\* VIII, IX, X, I whose predicate holds on the normalized input, and (None, 0)
\* when none holds; an input on which the Form VII (or VIII) and the Form IX
\* predicates hold is classified 7 (or 8), and one on which the Form V and
\* Form VI predicates hold is classified 5.
C17_FirstMatchAndOverlaps ==
  ClassifiedVocalized =>
    /\ EarliestMatch
    /\ (Holds(7) /\ Holds(9)) => ret.form = 7
    /\ (Holds(8) /\ Holds(9)) => ret.form = 8
    /\ (Holds(5) /\ Holds(6)) => ret.form = 5

\* C17 as amended: for every non-empty vocalized input, classify returns
\* (n, 0.9) for the earliest form n in the order II, III, IV, V, VI, VII,
\* VIII, IX, X, I whose predicate holds on the normalized input, and (None, 0)
\* when none holds; an input on which the Form VII (or VIII) and the Form IX
\* predicates hold is classified 7 (or 8), and one on which the Form V and
\* Form VI predicates hold is classified 5, provided no rule earlier in the
\* order holds on it.
C17_FirstMatch ==
  ClassifiedVocalized =>
    /\ EarliestMatch
    /\ (Holds(7) /\ Holds(9) /\ \A n \in 2..6 : ~Holds(n)) => ret.form = 7
    /\ (Holds(8) /\ Holds(9) /\ \A n \in 2..7 : ~Holds(n)) => ret.form = 8
    /\ (Holds(5) /\ Holds(6) /\ \A n \in 2..4 : ~Holds(n)) => ret.form = 5

C17_Witness ==
  /\ Detected(<<ALEF, KASRA, NOON, KAF, TEH, BEH, SHADDA>>)
  /\ Holds(7)
  /\ Holds(9)
  /\ ret.form = 7
  /\ ret.confidence = MATCH_CONFIDENCE

\* the call was generate_form_variants(root, n) for a root of three base
\* letters whose first letter is neither ta nor an alef variant, and n a form
\* with a template
RoundTripCase ==
  /\ Generating
  /\ Len(StripVocalization(call.word)) = 3
  /\ StripVocalization(call.word)[1] \notin
       {TEH, ALEF, ALEF_HAMZA_ABOVE, ALEF_HAMZA_BELOW, ALEF_MADDA, ALEF_WASLA}
  /\ call.form_num \in (1..8) \cup {10}

\* C18: for every root of exactly three base letters whose first letter is
\* neither ta nor an alef variant and every n in {1,...,8,10}, classifying the
\* first candidate of generate_form_variants(root, n) returns (n, 0.9).
C18_GenerateThenClassify ==
  RoundTripCase =>
    /\ ret.variants # <<>>
    /\ DetectFormPattern(ret.variants[1]).form = call.form_num
    /\ DetectFormPattern(ret.variants[1]).confidence = MATCH_CONFIDENCE

C18_Witness ==
  /\ RoundTripCase
  /\ call.word = <<KAF, TEH, BEH>>
  /\ call.form_num = 5
  /\ ret.variants[1] = <<TEH, FATHA, KAF, FATHA, TEH, SHADDA, FATHA, BEH, ALEF>>
  /\ DetectFormPattern(ret.variants[1]).form = 5

====
